---------------------------- MODULE Spec2Model ----------------------------
(***************************************************************************)
(* Model of hw-01.py: the address book (Field validators, Record,          *)
(* AddressBook), the upcoming-birthday query, the pickle-backed store and  *)
(* the command loop of main().                                             *)
(*                                                                         *)
(* Representation.                                                         *)
(*   - A string that the code inspects character by character (a phone)    *)
(*     is a sequence of one-character strings.  The character "u0663" is   *)
(*     ARABIC-INDIC DIGIT THREE, a non-ASCII character for which           *)
(*     str.isdigit() is True.                                              *)
(*   - A name is an atomic string; "" is the empty string.                 *)
(*   - The text handed to Birthday() is the sequence of the numeric fields *)
(*     that strptime("%d.%m.%Y") reads: <<day, month, year>>.  A text that *)
(*     does not have three fields is a sequence of another length.         *)
(*   - A date is a record [year, month, day].                              *)
(*   - AddressBook.data (a dict, which keeps insertion order) is a         *)
(*     sequence of Records with pairwise different names.                  *)
(*   - The store is NoFile (no file at the path) or the sequence of the    *)
(*     pickle items written so far.                                        *)
(***************************************************************************)
EXTENDS Integers, Sequences, FiniteSets, TLC

VARIABLES book, file, pc, last, today, reported, committed

vars == <<book, file, pc, last, today, reported, committed>>

-----------------------------------------------------------------------------
(* Bounds *)

\* longest phone list a Record is grown to by the add operations
MaxPhones == 2

-----------------------------------------------------------------------------
(* Characters and field validators *)

AsciiDigits == {"0", "1", "2", "3", "4", "5", "6", "7", "8", "9"}

\* the characters c with c.isdigit(): the ASCII digits and the other
\* characters of Unicode categories Nd/No that are digits
DigitChars == AsciiDigits \cup {"u0663"}

\* str.isdigit(): non-empty and every character is a digit character
isdigit(s) == Len(s) > 0 /\ \A i \in 1..Len(s) : s[i] \in DigitChars

PhoneLen == 10

NoError == "None"
ErrName == "Name cannot be empty."
ErrPhone == "Phone must contain exactly 10 digits"
ErrBirthday == "Birthday must be in the format DD.MM.YYYY."
ErrPhoneNotFound == "Phone not found"
ErrOldPhone == "Old phone not found"
ErrContact == "Contact not found"
ErrDayRange == "day is out of range for month"

\* Name.__init__ raises iff the value is empty
NameRaises(value) == value = ""

\* Phone.__init__ raises iff this is TRUE
PhoneRaises(value) == ~isdigit(value) \/ Len(value) # PhoneLen

-----------------------------------------------------------------------------
(* Calendar: datetime.date as used by Birthday and get_upcoming_birthdays *)

IsLeap(y) == (y % 4 = 0) /\ ((y % 100 # 0) \/ (y % 400 = 0))

DaysInMonth(y, m) ==
    IF m = 2 THEN (IF IsLeap(y) THEN 29 ELSE 28)
    ELSE IF m \in {4, 6, 9, 11} THEN 30 ELSE 31

\* date(y, m, d) can be constructed
IsDate(y, m, d) ==
    /\ y \in 1..9999
    /\ m \in 1..12
    /\ d \in 1..DaysInMonth(y, m)

Date(y, m, d) == [year |-> y, month |-> m, day |-> d]

RECURSIVE DaysBeforeMonth(_, _)
DaysBeforeMonth(y, m) ==
    IF m = 1 THEN 0 ELSE DaysBeforeMonth(y, m - 1) + DaysInMonth(y, m - 1)

DaysBeforeYear(y) ==
    (y - 1) * 365 + ((y - 1) \div 4) - ((y - 1) \div 100) + ((y - 1) \div 400)

\* date.toordinal(); the difference of two dates in days is the difference
\* of their ordinals
Ordinal(d) == DaysBeforeYear(d.year) + DaysBeforeMonth(d.year, d.month) + d.day

\* date.weekday(): Monday = 0 ... Saturday = 5, Sunday = 6
Weekday(d) == (Ordinal(d) + 6) % 7

NextDay(d) ==
    IF d.day < DaysInMonth(d.year, d.month) THEN [d EXCEPT !.day = @ + 1]
    ELSE IF d.month < 12 THEN Date(d.year, d.month + 1, 1)
    ELSE Date(d.year + 1, 1, 1)

\* date + timedelta(days = k), k >= 0
RECURSIVE AddDays(_, _)
AddDays(d, k) == IF k = 0 THEN d ELSE AddDays(NextDay(d), k - 1)

\* date.replace(year = y) raises ValueError iff this is TRUE
ReplaceYearRaises(d, y) == ~IsDate(y, d.month, d.day)

ReplaceYear(d, y) == [d EXCEPT !.year = y]

\* Birthday.__init__ raises iff the text does not parse as a calendar date
BirthdayRaises(raw) == Len(raw) # 3 \/ ~IsDate(raw[3], raw[2], raw[1])

\* the value Birthday.__init__ stores
BirthdayValue(raw) == Date(raw[3], raw[2], raw[1])

-----------------------------------------------------------------------------
(* Record *)

\* record.birthday is None
NoBirthday == [year |-> 0, month |-> 0, day |-> 0]

\* Record.__init__ after Name(name) succeeded
Record(name) == [name |-> name, phones |-> <<>>, birthday |-> NoBirthday]

\* the result of a call: the exception text (NoError when it returned) and
\* the object as the call left it
Outcome(err, obj) == [raised |-> err, obj |-> obj]

\* Record.find_phone: the position of the first Phone with that value, 0 for
\* None
find_phone(rec, phone) ==
    IF \E i \in 1..Len(rec.phones) : rec.phones[i] = phone
    THEN CHOOSE i \in 1..Len(rec.phones) :
            /\ rec.phones[i] = phone
            /\ \A j \in 1..(i - 1) : rec.phones[j] # phone
    ELSE 0

\* Record.add_phone
add_phone(rec, phone) ==
    IF \E i \in 1..Len(rec.phones) : rec.phones[i] = phone
    THEN Outcome(NoError, rec)
    ELSE IF PhoneRaises(phone) THEN Outcome(ErrPhone, rec)
    ELSE Outcome(NoError, [rec EXCEPT !.phones = Append(@, phone)])

\* list.remove of the element at position i
RemoveAt(s, i) == SubSeq(s, 1, i - 1) \o SubSeq(s, i + 1, Len(s))

\* Record.remove_phone
remove_phone(rec, phone) ==
    LET i == find_phone(rec, phone) IN
    IF i # 0 THEN Outcome(NoError, [rec EXCEPT !.phones = RemoveAt(@, i)])
    ELSE Outcome(ErrPhoneNotFound, rec)

\* faulty variant: stores the new value before it is validated
edit_phone_store_first(rec, old_phone, new_phone) ==
    LET i == find_phone(rec, old_phone) IN
    IF i # 0
    THEN Outcome(IF PhoneRaises(new_phone) THEN ErrPhone ELSE NoError,
                 [rec EXCEPT !.phones[i] = new_phone])
    ELSE Outcome(ErrOldPhone, rec)

\* Record.edit_phone
edit_phone(rec, old_phone, new_phone) ==
    LET i == find_phone(rec, old_phone) IN
    IF i # 0
    THEN IF PhoneRaises(new_phone) THEN Outcome(ErrPhone, rec)
         ELSE Outcome(NoError, [rec EXCEPT !.phones[i] = new_phone])
    ELSE Outcome(ErrOldPhone, rec)

\* Record.add_birthday
add_birthday(rec, raw) ==
    IF BirthdayRaises(raw) THEN Outcome(ErrBirthday, rec)
    ELSE Outcome(NoError, [rec EXCEPT !.birthday = BirthdayValue(raw)])

-----------------------------------------------------------------------------
(* AddressBook *)

\* position of the key in data, 0 when absent
KeyIndex(data, name) ==
    IF \E i \in 1..Len(data) : data[i].name = name
    THEN CHOOSE i \in 1..Len(data) : data[i].name = name
    ELSE 0

Keys(data) == {data[i].name : i \in 1..Len(data)}

\* AddressBook.add_record: self.data[record.name.value] = record
add_record(data, rec) ==
    LET i == KeyIndex(data, rec.name) IN
    IF i # 0 THEN [data EXCEPT ![i] = rec] ELSE Append(data, rec)

\* AddressBook.find: the position of the Record, 0 for None
find(data, name) == KeyIndex(data, name)

\* faulty variant: an absent key is ignored
delete_silent(data, name) ==
    LET i == KeyIndex(data, name) IN
    IF i # 0 THEN Outcome(NoError, RemoveAt(data, i))
    ELSE Outcome(NoError, data)

\* AddressBook.delete
delete(data, name) ==
    LET i == KeyIndex(data, name) IN
    IF i # 0 THEN Outcome(NoError, RemoveAt(data, i))
    ELSE Outcome(ErrContact, data)

-----------------------------------------------------------------------------
(* AddressBook.get_upcoming_birthdays *)

\* date < date: lexicographic on (year, month, day)
DateLess(a, b) ==
    \/ a.year < b.year
    \/ a.year = b.year /\ a.month < b.month
    \/ a.year = b.year /\ a.month = b.month /\ a.day < b.day

\* one of the two replace(year = ...) calls raises for this birthday
ProjectionRaises(b, tdy) ==
    \/ ReplaceYearRaises(b, tdy.year)
    \/ /\ DateLess(ReplaceYear(b, tdy.year), tdy)
       /\ ReplaceYearRaises(b, tdy.year + 1)

\* birthday_this_year after the roll to the next year
birthday_this_year(b, tdy) ==
    IF DateLess(ReplaceYear(b, tdy.year), tdy)
    THEN ReplaceYear(b, tdy.year + 1)
    ELSE ReplaceYear(b, tdy.year)

days_until_birthday(b, tdy) == Ordinal(birthday_this_year(b, tdy)) - Ordinal(tdy)

\* faulty variant: the shift of a weekend date is one day short
WeekendShiftShort(d) ==
    IF Weekday(d) >= 5 THEN AddDays(d, 6 - Weekday(d)) ELSE d

\* the date that is reported for an occurrence
WeekendShift(d) ==
    IF Weekday(d) >= 5 THEN AddDays(d, 7 - Weekday(d)) ELSE d

\* strftime('%d.%m.%Y'): the fields of the text, in its order
Strftime(d) == <<d.day, d.month, d.year>>

\* the line appended for a Record: its name and the formatted date
Line(name, d) == [name |-> name, birthday |-> Strftime(d)]

\* the loop over self.data.values() from position i on, with the list built
\* so far; an exception leaves the loop
RECURSIVE UpcomingFrom(_, _, _, _, _)
UpcomingFrom(data, i, tdy, days, acc) ==
    IF i > Len(data) THEN Outcome(NoError, acc)
    ELSE IF data[i].birthday = NoBirthday
    THEN UpcomingFrom(data, i + 1, tdy, days, acc)
    ELSE IF ProjectionRaises(data[i].birthday, tdy)
    THEN Outcome(ErrDayRange, acc)
    ELSE LET b == data[i].birthday
             until == days_until_birthday(b, tdy)
         IN IF 0 <= until /\ until <= days
            THEN UpcomingFrom(data, i + 1, tdy, days,
                    Append(acc, Line(data[i].name,
                                     WeekendShift(birthday_this_year(b, tdy)))))
            ELSE UpcomingFrom(data, i + 1, tdy, days, acc)

\* get_upcoming_birthdays(days): the exception text and the returned list
\* (empty when the call raised: nothing is returned)
get_upcoming_birthdays(data, tdy, days) ==
    LET r == UpcomingFrom(data, 1, tdy, days, <<>>) IN
    IF r.raised = NoError THEN r ELSE Outcome(r.raised, <<>>)

-----------------------------------------------------------------------------
(* save_data / load_data *)

Item(op, rec) == [op |-> op, rec |-> rec]

\* no file at the path
NoFile == <<Item("ENOENT", Record(""))>>

\* pickle.dump(book): the protocol header, one item per Record in the order
\* of the dict, the STOP opcode
Serialise(data) ==
    <<Item("PROTO", Record(""))>>
        \o [i \in 1..Len(data) |-> Item("RECORD", data[i])]
        \o <<Item("STOP", Record(""))>>

ErrTruncated == "pickle data was truncated"

\* load_data: FileNotFoundError and EOFError (an empty file, or one that
\* ends right after the header) give an empty AddressBook; a pickle cut
\* anywhere else raises UnpicklingError, which is not caught
load_data(f) ==
    IF f = NoFile THEN Outcome(NoError, <<>>)
    ELSE IF Len(f) <= 1 THEN Outcome(NoError, <<>>)
    ELSE IF f[Len(f)].op # "STOP" THEN Outcome(ErrTruncated, <<>>)
    ELSE Outcome(NoError, [i \in 1..(Len(f) - 2) |-> f[i + 1].rec])

-----------------------------------------------------------------------------
(* Command handlers *)

MsgUsageAdd == "Usage: add <name> <phone>"
MsgUsageChange == "Usage: change <name> <old_phone> <new_phone>"
MsgUsageBirthday == "Usage: add-birthday <name> <DD.MM.YYYY>"
MsgSaved == "Contact saved."
MsgUpdated == "Contact updated."
MsgNotFound == "Contact not found."
MsgBirthdayAdded == "Birthday added."
MsgDeleted == "Contact deleted."
MsgInvalid == "Invalid command."
MsgGoodBye == "Good bye!"
MsgUnpack == "too many values to unpack (expected 3)"
MsgShown == "(displayed)"

\* what a handler did: the text it returned, the book as it left it and
\* whether it reached save_data(book)
Handled(msg, data, saved) == [msg |-> msg, data |-> data, saved |-> saved]

\* add_contact under input_error
add_contact(args, data) ==
    IF Len(args) < 2 THEN Handled(MsgUsageAdd, data, FALSE)
    ELSE LET name == args[1]
             phone == args[2]
             isNew == find(data, name) = 0
             data1 == IF isNew THEN add_record(data, Record(name)) ELSE data
             i == find(data1, name)
             r == add_phone(data1[i], phone)
         IN IF r.raised # NoError
            THEN Handled(r.raised, data1, FALSE)
            ELSE Handled(IF isNew THEN MsgSaved ELSE MsgUpdated,
                         [data1 EXCEPT ![i] = r.obj], TRUE)

\* change_contact under input_error
change_contact(args, data) ==
    IF Len(args) < 3 THEN Handled(MsgUsageChange, data, FALSE)
    ELSE IF Len(args) > 3 THEN Handled(MsgUnpack, data, FALSE)
    ELSE LET i == find(data, args[1]) IN
         IF i = 0 THEN Handled(MsgNotFound, data, FALSE)
         ELSE LET r == edit_phone(data[i], args[2], args[3]) IN
              IF r.raised # NoError THEN Handled(r.raised, data, FALSE)
              ELSE Handled(MsgUpdated, [data EXCEPT ![i] = r.obj], TRUE)

\* add_birthday (the handler) under input_error
add_birthday_cmd(args, data) ==
    IF Len(args) # 2 THEN Handled(MsgUsageBirthday, data, FALSE)
    ELSE LET i == find(data, args[1]) IN
         IF i = 0 THEN Handled(MsgNotFound, data, FALSE)
         ELSE LET r == add_birthday(data[i], args[2]) IN
              IF r.raised # NoError THEN Handled(r.raised, data, FALSE)
              ELSE Handled(MsgBirthdayAdded, [data EXCEPT ![i] = r.obj], TRUE)

\* the delete branch of main(); without arguments the command falls through
\* to the last else
delete_cmd(args, data) ==
    IF Len(args) = 0 THEN Handled(MsgInvalid, data, FALSE)
    ELSE LET r == delete(data, args[1]) IN
         IF r.raised # NoError THEN Handled(r.raised, data, FALSE)
         ELSE Handled(MsgDeleted, r.obj, TRUE)

-----------------------------------------------------------------------------
(* Inputs *)

Names == {"ann", "bob"}

P1 == <<"0", "5", "0", "1", "2", "3", "4", "5", "6", "7">>
P2 == <<"0", "6", "7", "7", "6", "5", "4", "3", "2", "1">>
\* ten characters, the first one a non-ASCII digit
PArabic == <<"u0663", "5", "0", "1", "2", "3", "4", "5", "6", "7">>
PShort == <<"1", "2", "3">>

\* phone texts for the Record operations
PhoneInputs == {P1, P2, PArabic, PShort}

\* phone texts for the commands
CmdPhoneInputs == {P1, P2, PShort}

\* birthday texts for the commands: a date, 31.02.2000, a text of two fields
BirthdayInputs == {<<12, 3, 2000>>, <<31, 2, 2000>>, <<12, 3>>}

\* birthday texts for the query
QueryBirthdayInputs ==
    {<<10, 3, 1990>>, <<12, 3, 2000>>, <<16, 3, 1990>>, <<17, 3, 1985>>,
     <<9, 3, 1999>>, <<18, 3, 1995>>, <<29, 2, 2000>>, <<1, 1, 2001>>}

\* values of datetime.today().date(): Sunday 10.03.2024, Friday 10.03.2023,
\* Sunday 25.02.2024, Saturday 28.12.2024
TodayInputs ==
    {Date(2024, 3, 10), Date(2023, 3, 10), Date(2024, 2, 25), Date(2024, 12, 28)}

DaysInputs == {0, 6, 7}

\* the first n of the tokens after the command word
Args(n, tokens) == SubSeq(tokens, 1, n)

-----------------------------------------------------------------------------
(* State *)

Called(op, arg, msg) == [op |-> op, arg |-> arg, msg |-> msg]

NoReport == [days |-> 0, raised |-> NoError, lines |-> <<>>]

NoneCommitted == [any |-> FALSE, data |-> <<>>]

\* main() up to the first prompt, started without a file: load_data()
\* returns an empty AddressBook
Init ==
    /\ file = NoFile
    /\ book = load_data(file).obj
    /\ pc = "wait"
    /\ last = Called("start", "", NoError)
    /\ today = Date(2024, 3, 10)
    /\ reported = NoReport
    /\ committed = NoneCommitted

\* save_data(book): the content of the file once the with block is left
save_data(data) == Serialise(data)

\* the Record of that name may take one more phone
MayGrow(data, name) ==
    IF find(data, name) = 0 THEN TRUE
    ELSE Len(data[find(data, name)].phones) < MaxPhones

\* effect of one dispatched command
Dispatch(op, arg, r) ==
    /\ book' = r.data
    /\ file' = IF r.saved THEN save_data(r.data) ELSE file
    /\ committed' = IF r.saved THEN [any |-> TRUE, data |-> r.data] ELSE committed
    /\ last' = Called(op, arg, r.msg)
    /\ pc' = "wait"
    /\ UNCHANGED <<today, reported>>

-----------------------------------------------------------------------------
(* The command loop of main() *)

CmdAdd ==
    /\ pc = "wait"
    /\ \E n \in 1..2, name \in Names, phone \in CmdPhoneInputs :
          /\ MayGrow(book, name)
          /\ Dispatch("add", "", add_contact(Args(n, <<name, phone, phone>>), book))

CmdChange ==
    /\ pc = "wait"
    /\ \E n \in 2..4, name \in Names, old \in CmdPhoneInputs,
                         new \in CmdPhoneInputs :
          Dispatch("change", "",
                   change_contact(Args(n, <<name, old, new, new>>), book))

CmdAddBirthday ==
    /\ pc = "wait"
    /\ \E n \in 1..3, name \in Names, raw \in BirthdayInputs :
          Dispatch("add-birthday", "",
                   add_birthday_cmd(Args(n, <<name, raw, raw>>), book))

CmdDelete ==
    /\ pc = "wait"
    /\ \E n \in 0..2, name \in Names :
          Dispatch("delete", "", delete_cmd(Args(n, <<name, name>>), book))

\* hello, phone, all, show-birthday, birthdays, commands, an unknown word, an
\* empty line: something is displayed (or nothing), no state is touched
CmdDisplay ==
    /\ pc = "wait"
    /\ \E command \in {"hello", "phone", "all", "show-birthday", "birthdays",
                       "commands", "unknown"} :
          Dispatch("display", "", Handled(MsgShown, book, FALSE))

\* faulty variant: leaves the loop without the final save_data(book)
CmdExitNoSave ==
    /\ pc = "wait"
    /\ pc' = "done"
    /\ last' = Called("exit", "", MsgGoodBye)
    /\ UNCHANGED <<book, file, committed, today, reported>>

\* close / exit
CmdExit ==
    /\ pc = "wait"
    /\ file' = save_data(book)
    /\ committed' = [any |-> TRUE, data |-> book]
    /\ pc' = "done"
    /\ last' = Called("exit", "", MsgGoodBye)
    /\ UNCHANGED <<book, today, reported>>

Next ==
    \/ CmdAdd
    \/ CmdChange
    \/ CmdAddBirthday
    \/ CmdDelete
    \/ CmdDisplay
    \/ CmdExit

Spec == Init /\ [][Next]_vars

-----------------------------------------------------------------------------
(* The command loop with a process that can die inside save_data *)

\* what the commands that reach save_data(book) would write from this state
SavingResults(data) ==
    {r \in {add_contact(<<name, phone>>, data) :
                name \in {n \in Names : MayGrow(data, n)},
                phone \in CmdPhoneInputs}
            \cup {change_contact(<<name, old, new>>, data) :
                     name \in Names, old \in CmdPhoneInputs,
                     new \in CmdPhoneInputs}
            \cup {add_birthday_cmd(<<name, raw>>, data) :
                     name \in Names, raw \in BirthdayInputs}
            \cup {delete_cmd(<<name>>, data) : name \in Names} : r.saved}

\* the books that save_data is called with from this state: by a command
\* that changed the book, or by exit
SavedBooks(data) == {data} \cup {r.data : r \in SavingResults(data)}

\* the process stops between open(filename, "wb"), which empties the file,
\* and the end of the write: the file holds the first k items of the pickle
CrashInSave ==
    /\ pc = "wait"
    /\ \E data \in SavedBooks(book) :
          \E k \in 0..(Len(save_data(data)) - 1) :
              file' = SubSeq(save_data(data), 1, k)
    /\ pc' = "crashed"
    /\ book' = <<>>
    /\ last' = Called("crash", "", NoError)
    /\ UNCHANGED <<committed, today, reported>>

\* main() is started again: book = load_data(); an exception of load_data
\* ends the process
Restart ==
    /\ pc \in {"crashed", "done"}
    /\ book' = load_data(file).obj
    /\ pc' = IF load_data(file).raised = NoError THEN "wait" ELSE "loadfail"
    /\ last' = Called("restart", pc, load_data(file).raised)
    /\ UNCHANGED <<file, committed, today, reported>>

NextCrash ==
    \/ CmdAdd
    \/ CmdChange
    \/ CmdAddBirthday
    \/ CmdDelete
    \/ CmdDisplay
    \/ CmdExit
    \/ CrashInSave
    \/ Restart

SpecCrash == Init /\ [][NextCrash]_vars

-----------------------------------------------------------------------------
(* The operations of Record and AddressBook called directly *)

InitCore ==
    /\ book = <<>>
    /\ file = NoFile
    /\ pc = "core"
    /\ last = Called("start", "", NoError)
    /\ today = Date(2024, 3, 10)
    /\ reported = NoReport
    /\ committed = NoneCommitted

\* a call on the Record at position i of the book
OnRecord(i, op, r) ==
    /\ book' = [book EXCEPT ![i] = r.obj]
    /\ last' = Called(op, "", r.raised)
    /\ UNCHANGED <<file, pc, today, reported, committed>>

\* book.add_record(Record(name))
CoreAddRecord ==
    /\ pc = "core"
    /\ \E name \in Names \cup {""} :
          /\ book' = IF NameRaises(name) THEN book
                     ELSE add_record(book, Record(name))
          /\ last' = Called("add_record", name,
                            IF NameRaises(name) THEN ErrName ELSE NoError)
    /\ UNCHANGED <<file, pc, today, reported, committed>>

CoreAddPhone ==
    /\ pc = "core"
    /\ \E i \in 1..Len(book), phone \in PhoneInputs :
          /\ Len(book[i].phones) < MaxPhones
          /\ OnRecord(i, "add_phone", add_phone(book[i], phone))

CoreRemovePhone ==
    /\ pc = "core"
    /\ \E i \in 1..Len(book), phone \in PhoneInputs :
          OnRecord(i, "remove_phone", remove_phone(book[i], phone))

CoreEditPhone ==
    /\ pc = "core"
    /\ \E i \in 1..Len(book), old \in PhoneInputs, new \in PhoneInputs :
          OnRecord(i, "edit_phone", edit_phone(book[i], old, new))

CoreAddBirthday ==
    /\ pc = "core"
    /\ \E i \in 1..Len(book), raw \in BirthdayInputs :
          OnRecord(i, "add_birthday", add_birthday(book[i], raw))

CoreDelete ==
    /\ pc = "core"
    /\ \E name \in Names :
          /\ book' = delete(book, name).obj
          /\ last' = Called("delete", name, delete(book, name).raised)
    /\ UNCHANGED <<file, pc, today, reported, committed>>

NextCore ==
    \/ CoreAddRecord
    \/ CoreAddPhone
    \/ CoreRemovePhone
    \/ CoreEditPhone
    \/ CoreAddBirthday
    \/ CoreDelete

SpecCore == InitCore /\ [][NextCore]_vars

-----------------------------------------------------------------------------
(* The birthday query on books of Records with birthdays *)

InitQuery ==
    /\ book = <<>>
    /\ file = NoFile
    /\ pc = "query"
    /\ last = Called("start", "", NoError)
    /\ today \in TodayInputs
    /\ reported = NoReport
    /\ committed = NoneCommitted

\* book.add_record(Record(name)) for a name not yet in the book
QueryAddRecord ==
    /\ pc = "query"
    /\ \E name \in Names \ Keys(book) :
          /\ book' = add_record(book, Record(name))
          /\ last' = Called("add_record", name, NoError)
    /\ UNCHANGED <<file, pc, today, reported, committed>>

QueryAddBirthday ==
    /\ pc = "query"
    /\ \E i \in 1..Len(book), raw \in QueryBirthdayInputs :
          OnRecord(i, "add_birthday", add_birthday(book[i], raw))

\* book.get_upcoming_birthdays(days)
Birthdays ==
    /\ pc = "query"
    /\ \E days \in DaysInputs :
          LET r == get_upcoming_birthdays(book, today, days) IN
          /\ reported' = [days |-> days, raised |-> r.raised, lines |-> r.obj]
          /\ last' = Called("get_upcoming_birthdays", "", r.raised)
    /\ UNCHANGED <<book, file, pc, today, committed>>

NextQuery ==
    \/ QueryAddRecord
    \/ QueryAddBirthday
    \/ Birthdays

SpecQuery == InitQuery /\ [][NextQuery]_vars

-----------------------------------------------------------------------------
(* Properties *)

\* every Record of the book satisfies P
AllRecords(P(_)) == \A i \in 1..Len(book) : P(book[i])

SuccessTexts == {MsgSaved, MsgUpdated, MsgBirthdayAdded, MsgDeleted}

MutatingCommands == {"add", "change", "add-birthday", "delete"}

\* C1: whenever the command loop waits for the next input line, loading the
\* store gives the in-memory AddressBook (same keys, phone lists, birthdays).
StoreEqualsBookAtPrompt ==
    pc = "wait" =>
        /\ load_data(file).raised = NoError
        /\ load_data(file).obj = book

\* C2: when the process died inside save_data and main() is started again,
\* load_data() returns the AddressBook of the last save that completed (it
\* neither fails nor returns an empty or partial book).
CrashKeepsLastSave ==
    (last.op = "restart" /\ last.arg = "crashed" /\ committed.any) =>
        /\ last.msg = NoError
        /\ book = committed.data

\* C3: no two Phone entries of a Record hold the same value.
PhonesUnique ==
    AllRecords(LAMBDA rec :
        \A i, j \in 1..Len(rec.phones) :
            rec.phones[i] = rec.phones[j] => i = j)

\* C4: every stored phone value is exactly 10 ASCII digits.
PhonesTenAsciiDigits ==
    AllRecords(LAMBDA rec :
        \A i \in 1..Len(rec.phones) :
            /\ Len(rec.phones[i]) = 10
            /\ \A k \in 1..Len(rec.phones[i]) : rec.phones[i][k] \in AsciiDigits)

CoreMutators ==
    {"add_phone", "remove_phone", "edit_phone", "add_birthday", "delete"}

\* C5: a call of add_phone, remove_phone, edit_phone, add_birthday or
\* AddressBook.delete that fails leaves every Record and the book exactly as
\* they were before the call.
FailedCallChangesNothing ==
    [][(last'.op \in CoreMutators /\ last'.msg # NoError) => book' = book]_vars

\* C5 witness: edit_phone found the old value and failed on the new one, in
\* a book whose Records all hold a phone and a birthday
FailedEditReached ==
    /\ last.op = "edit_phone"
    /\ last.msg = ErrPhone
    /\ Len(book) = 2
    /\ AllRecords(LAMBDA rec : Len(rec.phones) > 0 /\ rec.birthday # NoBirthday)

\* C6: AddressBook.delete(name) of an absent key fails with the not-found
\* error and leaves the book unchanged; of a present key it removes exactly
\* that entry and leaves every other key and its Record untouched.
DeleteExactlyOne ==
    [][last'.op = "delete" =>
         IF last'.arg \in Keys(book)
         THEN /\ last'.msg = NoError
              /\ Keys(book') = Keys(book) \ {last'.arg}
              /\ \A n \in Keys(book') :
                    book'[KeyIndex(book', n)] = book[KeyIndex(book, n)]
         ELSE /\ last'.msg = ErrContact
              /\ book' = book]_vars

\* C6 witness: a delete succeeded and another Record, with a phone, is left
DeleteReached ==
    /\ last.op = "delete"
    /\ last.msg = NoError
    /\ Len(book) = 1
    /\ Len(book[1].phones) > 0

\* the next occurrence of the birthday's day and month on or after tdy
NextOccurrence(b, tdy) ==
    LET ok(y) == IsDate(y, b.month, b.day)
                   /\ ~DateLess(Date(y, b.month, b.day), tdy)
        year == CHOOSE y \in tdy.year..(tdy.year + 8) :
                   ok(y) /\ \A z \in tdy.year..(y - 1) : ~ok(z)
    IN Date(year, b.month, b.day)

DaysUntil(b, tdy) == Ordinal(NextOccurrence(b, tdy)) - Ordinal(tdy)

ReportedNames == {reported.lines[k].name : k \in 1..Len(reported.lines)}

\* C7: get_upcoming_birthdays(days) reports a Record if and only if it has a
\* birthday and 0 <= days_until <= days, days_until counted to the next
\* occurrence of the day and month on or after today.
ReportsExactlyWindow ==
    last.op = "get_upcoming_birthdays" =>
        ReportedNames =
            {book[i].name : i \in {j \in 1..Len(book) :
                /\ book[j].birthday # NoBirthday
                /\ 0 <= DaysUntil(book[j].birthday, today)
                /\ DaysUntil(book[j].birthday, today) <= reported.days}}

\* the date of a reported line
LineDate(ln) == Date(ln.birthday[3], ln.birthday[2], ln.birthday[1])

\* C8: a reported date is the occurrence itself on Monday-Friday, the
\* occurrence + 2 days on a Saturday and + 1 day on a Sunday; it is never a
\* Saturday or Sunday and it is at most 2 days past today + days.
WeekendShiftReported ==
    last.op = "get_upcoming_birthdays" =>
        \A k \in 1..Len(reported.lines) :
            LET ln == reported.lines[k]
                occ == NextOccurrence(book[KeyIndex(book, ln.name)].birthday, today)
                shift == IF Weekday(occ) = 5 THEN 2
                         ELSE IF Weekday(occ) = 6 THEN 1 ELSE 0
            IN /\ Ordinal(LineDate(ln)) = Ordinal(occ) + shift
               /\ IsDate(LineDate(ln).year, LineDate(ln).month, LineDate(ln).day)
               /\ Weekday(LineDate(ln)) \notin {5, 6}
               /\ Ordinal(LineDate(ln)) <= Ordinal(today) + reported.days + 2

\* C8 witness: a Saturday at the end of the window is reported as the Monday
\* two days past today + days
ShiftPastWindowReached ==
    /\ last.op = "get_upcoming_birthdays"
    /\ \E k \in 1..Len(reported.lines) :
          Ordinal(LineDate(reported.lines[k])) = Ordinal(today) + reported.days + 2

\* C9: when the loop was left by exit or close, the store holds the
\* in-memory AddressBook.
ExitPersists ==
    pc = "done" =>
        /\ load_data(file).raised = NoError
        /\ load_data(file).obj = book

\* C9 witness: exit after a command that failed and left the book different
\* from what the store held, with a Record to persist
ExitReached ==
    /\ pc = "done"
    /\ Len(book) > 0
    /\ \E i \in 1..Len(book) : book[i].phones = <<>>

\* C10: a mutating command that is answered with an error or usage text
\* leaves the in-memory AddressBook unchanged.
ErrorAnswerChangesNothing ==
    [][(last'.op \in MutatingCommands /\ last'.msg \notin SuccessTexts)
         => book' = book]_vars

=============================================================================
